---- MODULE Spec2Model ----
(***************************************************************************)
(* Model of the analytics page of the newsreader frontend                  *)
(* (frontend/src/pages/Analytics.tsx): the query results it consumes, the  *)
(* memoised derivations computed on every render and the wall clock the    *)
(* derivations read; and of the auth store (frontend/src/store/            *)
(* authStore.ts) with the access token kept in localStorage.               *)
(*                                                                         *)
(* Time.  A Date is an integer number of hours, day * HoursPerDay + hour.  *)
(* Hour HoursPerDay - 1 stands for the last instant of a day               *)
(* (23:59:59.999) and hour 0 for its first (00:00:00.000).                 *)
(* format(date, 'yyyy-MM-dd') is the day number: the key text is fixed     *)
(* width, so the lexicographic order of keys is the order of day numbers.  *)
(*                                                                         *)
(* Nullable values.  null / undefined is the empty tuple, a present value  *)
(* v is the one-element tuple <<v>>.                                       *)
(*                                                                         *)
(* Numbers.  Sentiment scores are integers in hundredths (0.5 is 50).      *)
(* Math.round(a / b * 100) is computed exactly, rounding halves up.        *)
(***************************************************************************)
EXTENDS Integers, Sequences, FiniteSets, TLC

VARIABLES
    now,                \* the wall clock: what new Date() returns
    timeRange,          \* useState<TimeRange>('30')
    articles,           \* useQuery ['all-articles'] data (Null until loaded)
    feeds,              \* useQuery ['feeds'] data (Null until loaded)
    sentimentAnalytics, \* useQuery ['sentiment-analytics'] data
    clusterData,        \* useQuery ['cluster-analytics'] data: one cluster's article_ids
    topicTrends,        \* useQuery ['topic-trends', topicTrendDays] data: trending_topics
    cutoffDate,         \* useMemo, deps [timeRangeDays]
    filteredArticles,   \* useMemo, deps [articles, cutoffDate]
    engagement,         \* useMemo, deps [articles, filteredArticles, feeds, ...]
    dailyActivity,      \* useMemo, deps [articles, filteredArticles, timeRangeDays]
    longestReadStreak,  \* useMemo, deps [dailyActivity]
    sentimentBuckets,   \* useMemo, deps [engagement, sentimentAnalytics]
    topFeedsForChart,   \* engagement?.feedPerformance.slice(0, 8) ?? []
    trendingTopics,     \* useMemo, deps [engagement, topicTrends]
    sentimentTrendData, \* useMemo, deps [cutoffDate, sentimentAnalytics]
    clusterTopics,      \* getClusterTopics(cluster.article_ids, articles)
    user,               \* useAuthStore: user
    isAuthenticated,    \* useAuthStore: isAuthenticated
    accessToken,        \* localStorage item 'access_token' (Null when absent)
    calls,              \* the store's creations after the first and the setUser /
                        \* logout calls made on it, oldest first
    commandsRef,        \* CommandPaletteProvider: commandsRef.current (a Map by id)
    cleanups,           \* the registerCommands calls whose cleanup has not run yet
    isOpen,             \* CommandPaletteProvider: useState(false)
    searchQuery,        \* CommandPaletteProvider: useState('')
    activeIndex,        \* CommandPaletteOverlay: useState(0)
    lastCommand         \* the id of the command whose action() ran last

pageVars == <<now, timeRange, articles, feeds, sentimentAnalytics, clusterData,
              topicTrends, cutoffDate, filteredArticles, engagement, dailyActivity,
              longestReadStreak, sentimentBuckets, topFeedsForChart, trendingTopics,
              sentimentTrendData, clusterTopics>>

storeVars == <<user, isAuthenticated, accessToken, calls>>

paletteVars == <<commandsRef, cleanups, isOpen, searchQuery, activeIndex, lastCommand>>

vars == <<pageVars, storeVars, paletteVars>>

----------------------------------------------------------------------------
(* Nullable values and small helpers *)

Null == <<>>

Some(v) == <<v>>

Min(a, b) == IF a <= b THEN a ELSE b

Max(a, b) == IF a >= b THEN a ELSE b

\* Array.prototype.slice(0, n)
Slice(s, n) == SubSeq(s, 1, Min(n, Len(s)))

\* Array.prototype.filter: keep[i] is the predicate's answer for s[i]
SeqFilter(s, keep) ==
    LET kept == {i \in 1..Len(s) : keep[i]}
        nth(p) == CHOOSE i \in kept : Cardinality({j \in kept : j < i}) = p - 1
    IN [p \in 1..Cardinality(kept) |-> s[nth(p)]]

\* Array.prototype.sort((a, b) => key(b) - key(a)), keys[i] being the key of
\* s[i]: descending by key; the sort is stable, so equal keys keep their input
\* order.
SortDesc(s, keys) ==
    LET pos(i) == 1 + Cardinality({j \in 1..Len(s) :
                        \/ keys[j] > keys[i]
                        \/ keys[j] = keys[i] /\ j < i})
    IN [p \in 1..Len(s) |-> s[CHOOSE i \in 1..Len(s) : pos(i) = p]]

\* Array.prototype.sort() and sort((a, b) => key(a) - key(b)): ascending, stable
SortAsc(s, keys) ==
    LET pos(i) == 1 + Cardinality({j \in 1..Len(s) :
                        \/ keys[j] < keys[i]
                        \/ keys[j] = keys[i] /\ j < i})
    IN [p \in 1..Len(s) |-> s[CHOOSE i \in 1..Len(s) : pos(i) = p]]

\* Math.round(n / d) for d > 0: floor(n / d + 1/2)
RoundDiv(n, d) == (2 * n + d) \div (2 * d)

\* Math.round((n / d) * 100) for d > 0
RoundPercent(n, d) == (200 * n + d) \div (2 * d)

----------------------------------------------------------------------------
(* Dates *)

HoursPerDay == 24

\* the times of day the inputs are drawn from: 00:00:00.000 and 23:59:59.999
TimesOfDay == {0, HoursPerDay - 1}

DateAt(day, hour) == day * HoursPerDay + hour

\* format(date, 'yyyy-MM-dd')
formatDateKey(date) == date \div HoursPerDay

\* new Date(`${dateKey}T00:00:00`)
parseDateKey(dateKey) == dateKey * HoursPerDay

\* date-fns subDays
subDays(date, amount) == date - amount * HoursPerDay

\* A date string is [valid |-> BOOLEAN, t |-> Date]: new Date(raw) is t when
\* valid and an Invalid Date (getTime() is NaN) otherwise.
IsoString(t) == [valid |-> TRUE, t |-> t]

BadString == [valid |-> FALSE, t |-> 0]

parseArticleDate(article) ==
    LET raw == IF article.published_date # Null
               THEN article.published_date
               ELSE article.created_at
    IN IF raw = Null THEN Null
       ELSE IF raw[1].valid THEN Some(raw[1].t) ELSE Null

----------------------------------------------------------------------------
(* Time range and article filter *)

TimeRanges == {"7", "30", "90", "all"}

\* Number.parseInt(timeRange, 10)
parseInt(text) ==
    CASE text = "7" -> 7
      [] text = "30" -> 30
      [] text = "90" -> 90

timeRangeDaysOf(range) == IF range = "all" THEN Null ELSE Some(parseInt(range))

\* cutoffDateOf counting back from the clock reading itself, not from the end
\* of its day
cutoffDateOf_FromNow(trd, clock) ==
    IF trd = Null THEN Null
    ELSE Some(subDays(clock, trd[1] - 1))

\* the body of the cutoffDate memo, run at clock reading `clock`
cutoffDateOf(trd, clock) ==
    IF trd = Null THEN Null
    ELSE LET endOfToday == DateAt(formatDateKey(clock), HoursPerDay - 1)
         IN Some(subDays(endOfToday, trd[1] - 1))

KeepArticle(article, cutoff) ==
    IF cutoff = Null THEN TRUE
    ELSE LET articleDate == parseArticleDate(article)
         IN IF articleDate = Null THEN FALSE
            ELSE articleDate[1] >= cutoff[1]

filteredArticlesOf(arts, cutoff) ==
    IF arts = Null THEN <<>>
    ELSE SeqFilter(arts[1], [i \in 1..Len(arts[1]) |-> KeepArticle(arts[1][i], cutoff)])

----------------------------------------------------------------------------
(* Insertion-ordered Map<K, V>: a sequence of [key, val] entries in the order  *)
(* the keys were first set.                                                    *)

MapHas(m, k) == \E i \in 1..Len(m) : m[i].key = k

MapGet(m, k) == m[CHOOSE i \in 1..Len(m) : m[i].key = k].val

\* map.get(k) || dflt
MapGetOr(m, k, dflt) == IF MapHas(m, k) THEN MapGet(m, k) ELSE dflt

\* map.set(k, v): an existing key keeps its place, a new key goes last
MapSet(m, k, v) ==
    IF MapHas(m, k)
    THEN [i \in 1..Len(m) |-> IF m[i].key = k THEN [key |-> k, val |-> v] ELSE m[i]]
    ELSE Append(m, [key |-> k, val |-> v])

----------------------------------------------------------------------------
(* engagement (EngagementAggregator and FeedPerformanceRanker) *)

NoCounts == [total |-> 0, read |-> 0, unread |-> 0]

\* CountArticle with the else branch lost: an unread article is counted in
\* total only
CountArticle_NoElse(entry, article) ==
    [total |-> entry.total + 1,
     read |-> IF article.is_read THEN entry.read + 1 ELSE entry.read,
     unread |-> entry.unread]

\* entry.total += 1; if (article.is_read) entry.read += 1 else entry.unread += 1
CountArticle(entry, article) ==
    [total |-> entry.total + 1,
     read |-> IF article.is_read THEN entry.read + 1 ELSE entry.read,
     unread |-> IF article.is_read THEN entry.unread ELSE entry.unread + 1]

\* sentimentBucketOf with strict comparisons: a boundary score falls in the
\* bucket next to its own
sentimentBucketOf_Strict(score) ==
    IF score > 50 THEN "positive"
    ELSE IF score > 5 THEN "slightlyPositive"
    ELSE IF score < -50 THEN "negative"
    ELSE IF score < -5 THEN "slightlyNegative"
    ELSE "neutral"

\* the if / else-if chain over article.sentiment_score (in hundredths)
sentimentBucketOf(score) ==
    IF score >= 50 THEN "positive"
    ELSE IF score >= 5 THEN "slightlyPositive"
    ELSE IF score <= -50 THEN "negative"
    ELSE IF score <= -5 THEN "slightlyNegative"
    ELSE "neutral"

BucketIds == <<"positive", "slightlyPositive", "neutral", "slightlyNegative", "negative">>

RECURSIVE CountTopics(_, _)
\* article.topics.forEach(topic => topicCounts.set(topic, (topicCounts.get(topic) || 0) + 1))
CountTopics(topicCounts, topics) ==
    IF topics = <<>> THEN topicCounts
    ELSE CountTopics(MapSet(topicCounts, Head(topics),
                            MapGetOr(topicCounts, Head(topics), 0) + 1),
                     Tail(topics))

EngagementStart ==
    [readCount |-> 0, bookmarkCount |-> 0, unreadCount |-> 0,
     uniqueDaySet |-> {}, topicCounts |-> <<>>, feedTotals |-> <<>>,
     sentimentBuckets |-> [b \in {BucketIds[i] : i \in 1..5} |-> 0]]

\* one iteration of filteredArticles.forEach in the engagement memo
EngagementStep(acc, article) ==
    LET articleDate == parseArticleDate(article)
        score == article.sentiment_score
    IN [readCount |-> IF article.is_read THEN acc.readCount + 1 ELSE acc.readCount,
        unreadCount |-> IF article.is_read THEN acc.unreadCount ELSE acc.unreadCount + 1,
        bookmarkCount |-> IF article.is_bookmarked THEN acc.bookmarkCount + 1
                          ELSE acc.bookmarkCount,
        uniqueDaySet |-> IF articleDate # Null
                         THEN acc.uniqueDaySet \cup {formatDateKey(articleDate[1])}
                         ELSE acc.uniqueDaySet,
        topicCounts |-> IF article.topics # Null
                        THEN CountTopics(acc.topicCounts, article.topics[1])
                        ELSE acc.topicCounts,
        feedTotals |-> MapSet(acc.feedTotals, article.feed_id,
                          CountArticle(MapGetOr(acc.feedTotals, article.feed_id, NoCounts),
                                       article)),
        sentimentBuckets |->
            IF score # Null
            THEN [acc.sentimentBuckets EXCEPT ![sentimentBucketOf(score[1])] = @ + 1]
            ELSE acc.sentimentBuckets]

RECURSIVE EngagementFold(_, _)
EngagementFold(acc, arts) ==
    IF arts = <<>> THEN acc
    ELSE EngagementFold(EngagementStep(acc, Head(arts)), Tail(arts))

\* new Map(feeds.map(feed => [feed.id, feed])).get(feedId): the last feed with the id
feedsByIdGet(feedList, feedId) ==
    LET hits == {i \in 1..Len(feedList) : feedList[i].id = feedId}
    IN IF hits = {} THEN Null
       ELSE Some(feedList[CHOOSE i \in hits : \A j \in hits : j <= i])

\* the .map callback of feedPerformance
feedPerformanceEntry(feedList, entry) ==
    LET feed == feedsByIdGet(feedList, entry.key)
        stats == entry.val
    IN [feedId |-> entry.key,
        name |-> IF feed # Null /\ feed[1].title # Null /\ feed[1].title[1] # ""
                 THEN feed[1].title[1] ELSE "Untitled",
        active |-> IF feed # Null THEN feed[1].is_active ELSE FALSE,
        total |-> stats.total,
        read |-> stats.read,
        unread |-> stats.unread,
        readRate |-> IF stats.total > 0 THEN RoundPercent(stats.read, stats.total) ELSE 0]

FeedListLimit == 10

TopicListLimit == 15

\* feedPerformanceOf without the sort: the entries stay in first-seen order
feedPerformanceOf_Unsorted(feedTotals, feedList) ==
    LET mapped == [i \in 1..Len(feedTotals) |->
                     feedPerformanceEntry(feedList, feedTotals[i])]
        withArticles == SeqFilter(mapped, [i \in 1..Len(mapped) |-> mapped[i].total > 0])
    IN Slice(withArticles, FeedListLimit)

\* .map(...).filter(item => item.total > 0).sort((a, b) => b.total - a.total).slice(0, 10)
feedPerformanceOf(feedTotals, feedList) ==
    LET mapped == [i \in 1..Len(feedTotals) |->
                     feedPerformanceEntry(feedList, feedTotals[i])]
        withArticles == SeqFilter(mapped, [i \in 1..Len(mapped) |-> mapped[i].total > 0])
        sorted == SortDesc(withArticles,
                           [i \in 1..Len(withArticles) |-> withArticles[i].total])
    IN Slice(sorted, FeedListLimit)

\* topTopicsOf without the slice
topTopicsOf_Uncut(topicCounts) ==
    LET sorted == SortDesc(topicCounts, [i \in 1..Len(topicCounts) |-> topicCounts[i].val])
    IN [i \in 1..Len(sorted) |-> [topic |-> sorted[i].key, count |-> sorted[i].val]]

\* Array.from(topicCounts.entries()).sort((a, b) => b[1] - a[1]).slice(0, 15).map(...)
topTopicsOf(topicCounts) ==
    LET sorted == SortDesc(topicCounts, [i \in 1..Len(topicCounts) |-> topicCounts[i].val])
        top == Slice(sorted, TopicListLimit)
    IN [i \in 1..Len(top) |-> [topic |-> top[i].key, count |-> top[i].val]]

\* engagementOf reporting a read rate of 100 when there is no article
engagementOf_FullRateWhenEmpty(arts, feedList, filtered, trd) ==
    IF feedList = Null \/ arts = Null THEN Null
    ELSE LET acc == EngagementFold(EngagementStart, filtered)
             total == Len(filtered)
             uniqueDays == IF Cardinality(acc.uniqueDaySet) # 0
                           THEN Cardinality(acc.uniqueDaySet)
                           ELSE IF trd # Null THEN trd[1] ELSE 0
         IN Some([total |-> total,
                  readCount |-> acc.readCount,
                  unreadCount |-> acc.unreadCount,
                  bookmarkCount |-> acc.bookmarkCount,
                  readRate |-> IF total > 0 THEN RoundPercent(acc.readCount, total) ELSE 100,
                  averagePerDay |-> IF uniqueDays > 0 THEN RoundDiv(total, uniqueDays)
                                    ELSE total,
                  activeFeeds |-> Cardinality({i \in 1..Len(feedList[1]) :
                                                 feedList[1][i].is_active}),
                  uniqueDays |-> uniqueDays,
                  topTopics |-> topTopicsOf(acc.topicCounts),
                  feedPerformance |-> feedPerformanceOf(acc.feedTotals, feedList[1]),
                  fallbackSentiments |-> acc.sentimentBuckets])

\* the engagement memo
engagementOf(arts, feedList, filtered, trd) ==
    IF feedList = Null \/ arts = Null THEN Null
    ELSE LET acc == EngagementFold(EngagementStart, filtered)
             total == Len(filtered)
             uniqueDays == IF Cardinality(acc.uniqueDaySet) # 0
                           THEN Cardinality(acc.uniqueDaySet)
                           ELSE IF trd # Null THEN trd[1] ELSE 0
         IN Some([total |-> total,
                  readCount |-> acc.readCount,
                  unreadCount |-> acc.unreadCount,
                  bookmarkCount |-> acc.bookmarkCount,
                  readRate |-> IF total > 0 THEN RoundPercent(acc.readCount, total) ELSE 0,
                  averagePerDay |-> IF uniqueDays > 0 THEN RoundDiv(total, uniqueDays)
                                    ELSE total,
                  activeFeeds |-> Cardinality({i \in 1..Len(feedList[1]) :
                                                 feedList[1][i].is_active}),
                  uniqueDays |-> uniqueDays,
                  topTopics |-> topTopicsOf(acc.topicCounts),
                  feedPerformance |-> feedPerformanceOf(acc.feedTotals, feedList[1]),
                  fallbackSentiments |-> acc.sentimentBuckets])

ChartFeedLimit == 8

topFeedsForChartOf(eng) ==
    IF eng = Null THEN <<>> ELSE Slice(eng[1].feedPerformance, ChartFeedLimit)

----------------------------------------------------------------------------
(* dailyActivity (DailyActivityBuilder) and longestReadStreak *)

RECURSIVE countsMapOf_LastWins(_, _)
\* countsMapOf starting every day's entry afresh: a day counts its last
\* article only
countsMapOf_LastWins(countsMap, arts) ==
    IF arts = <<>> THEN countsMap
    ELSE LET article == Head(arts)
             articleDate == parseArticleDate(article)
         IN IF articleDate = Null THEN countsMapOf_LastWins(countsMap, Tail(arts))
            ELSE LET dateKey == formatDateKey(articleDate[1])
                 IN countsMapOf_LastWins(MapSet(countsMap, dateKey,
                                            CountArticle(NoCounts, article)),
                                         Tail(arts))

RECURSIVE countsMapOf(_, _)
\* filteredArticles.forEach in the dailyActivity memo: articles without a
\* parseable date are skipped
countsMapOf(countsMap, arts) ==
    IF arts = <<>> THEN countsMap
    ELSE LET article == Head(arts)
             articleDate == parseArticleDate(article)
         IN IF articleDate = Null THEN countsMapOf(countsMap, Tail(arts))
            ELSE LET dateKey == formatDateKey(articleDate[1])
                 IN countsMapOf(MapSet(countsMap, dateKey,
                                   CountArticle(MapGetOr(countsMap, dateKey, NoCounts),
                                                article)),
                                Tail(arts))

ActivityPoint(dateKey, entry) ==
    [dateKey |-> dateKey, read |-> entry.read, unread |-> entry.unread,
     total |-> entry.total]

\* dailyActivityOf with the loop running from offset timeRangeDays down to 1
dailyActivityOf_OffByOne(arts, filtered, trd, clock) ==
    IF arts = Null THEN <<>>
    ELSE LET countsMap == countsMapOf(<<>>, filtered)
         IN IF trd # Null
            THEN [i \in 1..trd[1] |->
                    LET dateKey == formatDateKey(subDays(clock, trd[1] - i + 1))
                    IN ActivityPoint(dateKey, MapGetOr(countsMap, dateKey, NoCounts))]
            ELSE LET sorted == SortAsc(countsMap, [i \in 1..Len(countsMap) |-> countsMap[i].key])
                 IN [i \in 1..Len(sorted) |-> ActivityPoint(sorted[i].key, sorted[i].val)]

\* the body of the dailyActivity memo, run at clock reading `clock`
dailyActivityOf(arts, filtered, trd, clock) ==
    IF arts = Null THEN <<>>
    ELSE LET countsMap == countsMapOf(<<>>, filtered)
         IN IF trd # Null
            THEN \* for (offset = timeRangeDays - 1; offset >= 0; offset -= 1)
                 [i \in 1..trd[1] |->
                    LET dateKey == formatDateKey(subDays(clock, trd[1] - i))
                    IN ActivityPoint(dateKey, MapGetOr(countsMap, dateKey, NoCounts))]
            ELSE LET sorted == SortAsc(countsMap, [i \in 1..Len(countsMap) |-> countsMap[i].key])
                 IN [i \in 1..Len(sorted) |-> ActivityPoint(sorted[i].key, sorted[i].val)]

\* StreakStep without the else branch: a day without a read article does not
\* end the run
StreakStep_NoReset(st, day) ==
    LET date == parseDateKey(day.dateKey)
        diff == IF st.prevDate # Null THEN RoundDiv(date - st.prevDate[1], HoursPerDay)
                ELSE 0
        current0 == IF st.prevDate # Null /\ diff > 1 THEN 0 ELSE st.current
        current1 == IF day.read > 0 THEN current0 + 1 ELSE current0
    IN [best |-> IF day.read > 0 THEN Max(st.best, current1) ELSE st.best,
        current |-> current1,
        prevDate |-> Some(date)]

\* StreakStep without the gap test: days that are absent from the series do
\* not end the run
StreakStep_NoGap(st, day) ==
    LET date == parseDateKey(day.dateKey)
        current1 == IF day.read > 0 THEN st.current + 1 ELSE 0
    IN [best |-> IF day.read > 0 THEN Max(st.best, current1) ELSE st.best,
        current |-> current1,
        prevDate |-> Some(date)]

\* one iteration of dailyActivity.forEach in the longestReadStreak memo;
\* st is [best, current, prevDate]
StreakStep(st, day) ==
    LET date == parseDateKey(day.dateKey)
        diff == IF st.prevDate # Null THEN RoundDiv(date - st.prevDate[1], HoursPerDay)
                ELSE 0
        current0 == IF st.prevDate # Null /\ diff > 1 THEN 0 ELSE st.current
        current1 == IF day.read > 0 THEN current0 + 1 ELSE 0
    IN [best |-> IF day.read > 0 THEN Max(st.best, current1) ELSE st.best,
        current |-> current1,
        prevDate |-> Some(date)]

RECURSIVE StreakFold(_, _, _, _)
\* dailyActivity.forEach over points[lo..hi], in order, from loop state st.  The
\* range is walked by halves and the guard, which always holds, makes TLC finish
\* the first half before it starts the second.
StreakFold(st, points, lo, hi) ==
    IF lo > hi THEN st
    ELSE IF lo = hi THEN StreakStep(st, points[lo])
    ELSE LET mid == (lo + hi) \div 2
             firstHalf == StreakFold(st, points, lo, mid)
         IN IF firstHalf.best >= 0 THEN StreakFold(firstHalf, points, mid + 1, hi)
            ELSE firstHalf

longestReadStreakOf(points) ==
    IF Len(points) = 0 THEN 0
    ELSE StreakFold([best |-> 0, current |-> 0, prevDate |-> Null],
                    points, 1, Len(points)).best

----------------------------------------------------------------------------
(* sentimentBuckets (SentimentResolver) *)

\* Object.values(engagement?.fallbackSentiments ?? {}).reduce((sum, v) => sum + v, 0)
fallbackSum(eng) ==
    IF eng = Null THEN 0
    ELSE LET f == eng[1].fallbackSentiments
         IN f["positive"] + f["slightlyPositive"] + f["neutral"]
            + f["slightlyNegative"] + f["negative"]

\* Bucket rounding the percent down
Bucket_Floor(id, value, totals) ==
    [id |-> id, value |-> value,
     percent |-> IF totals > 0 THEN (100 * value) \div totals ELSE 0]

\* the .map callback adding percent to a bucket
Bucket(id, value, totals) ==
    [id |-> id, value |-> value,
     percent |-> IF totals > 0 THEN RoundPercent(value, totals) ELSE 0]

\* sentimentBucketsOf preferring the local counters whenever they exist
sentimentBucketsOf_LocalFirst(sa, eng) ==
    LET totals == IF eng # Null THEN fallbackSum(eng) ELSE IF sa # Null THEN sa[1].total ELSE 0
    IN IF eng # Null
       THEN LET fallback == eng[1].fallbackSentiments
            IN [i \in 1..5 |-> Bucket(BucketIds[i], fallback[BucketIds[i]], totals)]
       ELSE IF sa # Null /\ sa[1].total > 0
       THEN <<Bucket("positive", sa[1].positive, totals),
              Bucket("slightlyPositive", sa[1].slightly_positive, totals),
              Bucket("neutral", sa[1].neutral, totals),
              Bucket("slightlyNegative", sa[1].slightly_negative, totals),
              Bucket("negative", sa[1].negative, totals)>>
       ELSE <<>>

\* the sentimentBuckets memo; sa is the external aggregate
\* [positive, slightly_positive, neutral, slightly_negative, negative, total]
sentimentBucketsOf(sa, eng) ==
    LET totals == IF sa # Null THEN sa[1].total ELSE fallbackSum(eng)
    IN IF sa # Null /\ sa[1].total > 0
       THEN <<Bucket("positive", sa[1].positive, totals),
              Bucket("slightlyPositive", sa[1].slightly_positive, totals),
              Bucket("neutral", sa[1].neutral, totals),
              Bucket("slightlyNegative", sa[1].slightly_negative, totals),
              Bucket("negative", sa[1].negative, totals)>>
       ELSE IF eng = Null THEN <<>>
       ELSE LET fallback == eng[1].fallbackSentiments
            IN [i \in 1..5 |-> Bucket(BucketIds[i], fallback[BucketIds[i]], totals)]

----------------------------------------------------------------------------
(* sentimentTrendData *)

\* sentimentTrendDataOf without the sort: the entries stay in the order of the
\* external map
sentimentTrendDataOf_Unsorted(sa, cutoff) ==
    IF sa = Null THEN <<>>
    ELSE IF sa[1].daily_trends = Null THEN <<>>
    ELSE LET entries == sa[1].daily_trends[1]
             kept == SeqFilter(entries,
                        [i \in 1..Len(entries) |->
                            /\ entries[i].dateKey.valid
                            /\ (cutoff = Null \/ entries[i].dateKey.t >= cutoff[1])])
         IN [i \in 1..Len(kept) |->
                [fullDate |-> kept[i].dateKey.t, positive |-> kept[i].positive,
                 neutral |-> kept[i].neutral, negative |-> kept[i].negative]]

\* the sentimentTrendData memo.  daily_trends is the list of the external map's
\* entries [dateKey, positive, neutral, negative] in Object.entries order, the
\* key being a date string as new Date(dateKey) reads it.
sentimentTrendDataOf(sa, cutoff) ==
    IF sa = Null THEN <<>>
    ELSE IF sa[1].daily_trends = Null THEN <<>>
    ELSE LET entries == sa[1].daily_trends[1]
             kept == SeqFilter(entries,
                        [i \in 1..Len(entries) |->
                            /\ entries[i].dateKey.valid
                            /\ (cutoff = Null \/ entries[i].dateKey.t >= cutoff[1])])
             mapped == [i \in 1..Len(kept) |->
                          [fullDate |-> kept[i].dateKey.t, positive |-> kept[i].positive,
                           neutral |-> kept[i].neutral, negative |-> kept[i].negative]]
         IN SortAsc(mapped, [i \in 1..Len(mapped) |-> mapped[i].fullDate])

----------------------------------------------------------------------------
(* trendingTopics (TopicTrendResolver) *)

\* timeRange === 'all' ? 90 : Number.parseInt(timeRange, 10)
topicTrendDaysOf(range) == IF range = "all" THEN 90 ELSE parseInt(range)

TrendingTopicLimit == 8

\* trendingTopicsOf without the slice: every top topic is listed
trendingTopicsOf_Uncut(trends, eng) ==
    IF trends # Null /\ Len(trends[1]) # 0
    THEN [i \in 1..Len(trends[1]) |->
            [topic |-> trends[1][i].topic, count |-> trends[1][i].count,
             growth |-> trends[1][i].growth]]
    ELSE IF eng = Null THEN <<>>
    ELSE LET top == eng[1].topTopics
         IN [i \in 1..Len(top) |->
                [topic |-> top[i].topic, count |-> top[i].count, growth |-> Null]]

\* the trendingTopics memo; trends is topicTrends?.trending_topics
trendingTopicsOf(trends, eng) ==
    IF trends # Null /\ Len(trends[1]) # 0
    THEN [i \in 1..Len(trends[1]) |->
            [topic |-> trends[1][i].topic, count |-> trends[1][i].count,
             growth |-> trends[1][i].growth]]
    ELSE IF eng = Null THEN <<>>
    ELSE LET top == Slice(eng[1].topTopics, TrendingTopicLimit)
         IN [i \in 1..Len(top) |->
                [topic |-> top[i].topic, count |-> top[i].count, growth |-> Null]]

----------------------------------------------------------------------------
(* getClusterTopics (ClusterTopicExtractor) *)

\* Topic strings that are canonical array indices ("2024", "7"): an ordinary
\* object lists such keys first, in ascending numeric order, and only then
\* its other string keys in insertion order.
IntegerTopics == {"7", "2024"}

IntegerValue(topic) == CASE topic = "7" -> 7 [] topic = "2024" -> 2024

\* articles.find(item => item.id === articleId): the first match
findArticle(arts, articleId) ==
    LET hits == {i \in 1..Len(arts) : arts[i].id = articleId}
    IN IF hits = {} THEN Null
       ELSE Some(arts[CHOOSE i \in hits : \A j \in hits : i <= j])

RECURSIVE collectTopics(_, _, _)
\* articleIds.forEach(id => { ...; if (article?.topics) topics.push(...article.topics) })
collectTopics(topics, articleIds, arts) ==
    IF articleIds = <<>> THEN topics
    ELSE LET article == findArticle(arts, Head(articleIds))
         IN collectTopics(IF article # Null /\ article[1].topics # Null
                          THEN topics \o article[1].topics[1] ELSE topics,
                          Tail(articleIds), arts)

\* Object.entries(topicCounts) of the plain object the reduce fills; counted
\* lists the keys in the order they were first assigned
objectEntries(counted) ==
    LET isIndex == [i \in 1..Len(counted) |-> counted[i].key \in IntegerTopics]
        indexKeys == SeqFilter(counted, isIndex)
        stringKeys == SeqFilter(counted, [i \in 1..Len(counted) |-> ~isIndex[i]])
    IN SortAsc(indexKeys, [i \in 1..Len(indexKeys) |-> IntegerValue(indexKeys[i].key)])
           \o stringKeys

ClusterTopicLimit == 3

getClusterTopics(articleIds, arts) ==
    IF arts = Null THEN <<>>
    ELSE LET topics == collectTopics(<<>>, articleIds, arts[1])
             topicCounts == CountTopics(<<>>, topics)
             entries == objectEntries(topicCounts)
             top == Slice(SortDesc(entries, [i \in 1..Len(entries) |-> entries[i].val]),
                          ClusterTopicLimit)
         IN [i \in 1..Len(top) |-> top[i].key]

RECURSIVE Clusters_collectTopics(_, _, _)
\* allArticles.filter(a => articleIds.includes(a.id)).forEach(article =>
\*   { if (article.topics) allTopics.push(...article.topics) }) of the Clusters
\* page: the snapshot is read in its own order, each article once
Clusters_collectTopics(allTopics, articleIds, allArticles) ==
    IF allArticles = <<>> THEN allTopics
    ELSE LET article == Head(allArticles)
             included == \E i \in 1..Len(articleIds) : articleIds[i] = article.id
         IN Clusters_collectTopics(IF included /\ article.topics # Null
                                   THEN allTopics \o article.topics[1] ELSE allTopics,
                                   articleIds, Tail(allArticles))

\* getClusterTopics of the Clusters page
Clusters_getClusterTopics(articleIds, allArticles) ==
    IF allArticles = Null THEN <<>>
    ELSE LET allTopics == Clusters_collectTopics(<<>>, articleIds, allArticles[1])
             topicCounts == CountTopics(<<>>, allTopics)
             entries == objectEntries(topicCounts)
             top == Slice(SortDesc(entries, [i \in 1..Len(entries) |-> entries[i].val]),
                          ClusterTopicLimit)
         IN [i \in 1..Len(top) |-> top[i].key]

----------------------------------------------------------------------------
(* The page: mount, re-render on a state or query change, the clock *)

\* One render pass with the new hook values.  A memo whose body reads the
\* clock keeps its previous value unless one of its dependencies changed:
\* cutoffDate depends on timeRangeDays only; dailyActivity on articles,
\* filteredArticles and timeRangeDays, and filteredArticles changes only with
\* articles or cutoffDate.  The other memos are functions of their
\* dependencies alone; longestReadStreak is kept while dailyActivity is.
Render(arts, feedList, range, sa, cluster, trends) ==
    LET trd == timeRangeDaysOf(range)
        sameRange == trd = timeRangeDaysOf(timeRange)
        cutoff == IF sameRange THEN cutoffDate ELSE cutoffDateOf(trd, now)
        filtered == filteredArticlesOf(arts, cutoff)
        eng == engagementOf(arts, feedList, filtered, trd)
        activity == IF sameRange /\ arts = articles THEN dailyActivity
                    ELSE dailyActivityOf(arts, filtered, trd, now)
    IN /\ articles' = arts
       /\ feeds' = feedList
       /\ timeRange' = range
       /\ sentimentAnalytics' = sa
       /\ clusterData' = cluster
       /\ topicTrends' = trends
       /\ cutoffDate' = cutoff
       /\ filteredArticles' = filtered
       /\ engagement' = eng
       /\ dailyActivity' = activity
       /\ longestReadStreak' = IF activity = dailyActivity THEN longestReadStreak
                               ELSE longestReadStreakOf(activity)
       /\ sentimentBuckets' = sentimentBucketsOf(sa, eng)
       /\ topFeedsForChart' = topFeedsForChartOf(eng)
       /\ trendingTopics' = trendingTopicsOf(trends, eng)
       /\ sentimentTrendData' = sentimentTrendDataOf(sa, cutoff)
       /\ clusterTopics' = IF cluster = Null THEN <<>>
                           ELSE getClusterTopics(cluster[1], arts)
       /\ now' = now
       /\ UNCHANGED <<storeVars, paletteVars>>

\* the first render: every query is still loading
Mount(clock) ==
    LET trd == timeRangeDaysOf("30")
        cutoff == cutoffDateOf(trd, clock)
        filtered == filteredArticlesOf(Null, cutoff)
        eng == engagementOf(Null, Null, filtered, trd)
        activity == dailyActivityOf(Null, filtered, trd, clock)
    IN /\ now = clock
       /\ timeRange = "30"
       /\ articles = Null
       /\ feeds = Null
       /\ sentimentAnalytics = Null
       /\ clusterData = Null
       /\ topicTrends = Null
       /\ cutoffDate = cutoff
       /\ filteredArticles = filtered
       /\ engagement = eng
       /\ dailyActivity = activity
       /\ longestReadStreak = longestReadStreakOf(activity)
       /\ sentimentBuckets = sentimentBucketsOf(Null, eng)
       /\ topFeedsForChart = topFeedsForChartOf(eng)
       /\ trendingTopics = trendingTopicsOf(Null, eng)
       /\ sentimentTrendData = sentimentTrendDataOf(Null, cutoff)
       /\ clusterTopics = <<>>

\* onClick={() => setTimeRange(option.value)}; a range with another
\* topicTrendDays is another query key, whose data is not there yet
SetTimeRange ==
    \E range \in TimeRanges :
        /\ range # timeRange
        /\ Render(articles, feeds, range, sentimentAnalytics, clusterData,
                  IF topicTrendDaysOf(range) = topicTrendDaysOf(timeRange)
                  THEN topicTrends ELSE Null)

\* the ['all-articles'] query delivers a snapshot
ArticlesLoaded(snapshots) ==
    \E arts \in snapshots :
        /\ Some(arts) # articles
        /\ Render(Some(arts), feeds, timeRange, sentimentAnalytics, clusterData, topicTrends)

\* a refetch of ['all-articles'] delivers the snapshot grown by one new article
ArticlesRefetched(newArticles, maxLen) ==
    \E article \in newArticles :
        /\ articles # Null
        /\ Len(articles[1]) < maxLen
        /\ Render(Some(Append(articles[1], [article EXCEPT !.id = Len(articles[1]) + 1])),
                  feeds, timeRange, sentimentAnalytics, clusterData, topicTrends)

\* the ['feeds'] query delivers the feed list
FeedsLoaded(feedLists) ==
    \E feedList \in feedLists :
        /\ Some(feedList) # feeds
        /\ Render(articles, Some(feedList), timeRange, sentimentAnalytics, clusterData,
                  topicTrends)

\* the ['sentiment-analytics'] query delivers the server aggregate
SentimentLoaded(aggregates) ==
    \E sa \in aggregates :
        /\ Some(sa) # sentimentAnalytics
        /\ Render(articles, feeds, timeRange, Some(sa), clusterData, topicTrends)

\* the ['cluster-analytics'] query delivers a cluster's article_ids
ClusterDataLoaded(idLists) ==
    \E ids \in idLists :
        /\ Some(ids) # clusterData
        /\ Render(articles, feeds, timeRange, sentimentAnalytics, Some(ids), topicTrends)

\* the ['topic-trends', topicTrendDays] query delivers trending_topics
TopicTrendsLoaded(trendLists) ==
    \E trends \in trendLists :
        /\ Some(trends) # topicTrends
        /\ Render(articles, feeds, timeRange, sentimentAnalytics, clusterData,
                  Some(trends))

\* time passes while the page stays mounted; nothing re-renders
Tick(instants) ==
    \E t \in instants :
        /\ t > now
        /\ now' = t
        /\ UNCHANGED <<timeRange, articles, feeds, sentimentAnalytics, clusterData,
                       topicTrends, cutoffDate, filteredArticles, engagement,
                       dailyActivity, longestReadStreak, sentimentBuckets,
                       topFeedsForChart, trendingTopics, sentimentTrendData,
                       clusterTopics>>
        /\ UNCHANGED <<storeVars, paletteVars>>

----------------------------------------------------------------------------
(* The auth store (useAuthStore), authApi and the route guard *)

\* authApi.isAuthenticated: !!localStorage.getItem('access_token')
authApi_isAuthenticated(token) == token # Null /\ token # Some("")

\* authApi.logout leaving the stored token in place
authApi_logout_KeepToken(token) == token

\* authApi.logout: localStorage.removeItem('access_token'); the item afterwards
authApi_logout(token) == Null

\* setUser marking the store authenticated whatever the argument
setUser_AlwaysAuthenticated(u) == [user |-> u, isAuthenticated |-> TRUE]

\* setUser: (user) => set({ user, isAuthenticated: !!user })
setUser(u) == [user |-> u, isAuthenticated |-> u # Null]

\* PrivateRoute: isAuthenticated ? children : <Navigate to="/login" />
PrivateRoute == IF isAuthenticated THEN "children" ELSE "/login"

\* create(...): the store as the module builds it, given the stored token
CreateStore(token) ==
    /\ accessToken = token
    /\ user = Null
    /\ isAuthenticated = authApi_isAuthenticated(token)
    /\ calls = <<>>

\* a call of the store's setUser with one of `users` (a user or Null)
SetUser(users, maxCalls) ==
    \E u \in users :
        /\ Len(calls) < maxCalls
        /\ user' = setUser(u).user
        /\ isAuthenticated' = setUser(u).isAuthenticated
        /\ calls' = Append(calls, [op |-> "setUser", arg |-> u])
        /\ UNCHANGED <<accessToken, pageVars, paletteVars>>

\* a call of the store's logout
Logout(maxCalls) ==
    /\ Len(calls) < maxCalls
    /\ accessToken' = authApi_logout(accessToken)
    /\ user' = Null
    /\ isAuthenticated' = FALSE
    /\ calls' = Append(calls, [op |-> "logout", arg |-> Null])
    /\ UNCHANGED <<pageVars, paletteVars>>

\* Login: authApi.login resolves with access_token `token`, stored when it is
\* not empty; onSuccess then calls setUser({ id: 0, email, ... })
LoginSucceeded(tokens, emails, maxCalls) ==
    \E token \in tokens, email \in emails :
        LET u == Some([id |-> 0, email |-> email])
        IN /\ Len(calls) < maxCalls
           /\ accessToken' = IF token # "" THEN Some(token) ELSE accessToken
           /\ user' = setUser(u).user
           /\ isAuthenticated' = setUser(u).isAuthenticated
           /\ calls' = Append(calls, [op |-> "setUser", arg |-> u])
           /\ UNCHANGED <<pageVars, paletteVars>>

\* AuthCallback with a token in the URL: the token is stored and setUser is
\* called with the placeholder user
AuthCallback(tokens, maxCalls) ==
    \E token \in tokens :
        LET u == Some([id |-> 0, email |-> ""])
        IN /\ token # ""
           /\ Len(calls) < maxCalls
           /\ accessToken' = Some(token)
           /\ user' = setUser(u).user
           /\ isAuthenticated' = setUser(u).isAuthenticated
           /\ calls' = Append(calls, [op |-> "setUser", arg |-> u])
           /\ UNCHANGED <<pageVars, paletteVars>>

\* the application is loaded again: the store is created anew from localStorage
Reload(maxCalls) ==
    /\ Len(calls) < maxCalls
    /\ accessToken' = accessToken
    /\ user' = Null
    /\ isAuthenticated' = authApi_isAuthenticated(accessToken)
    /\ calls' = Append(calls, [op |-> "create", arg |-> Null])
    /\ UNCHANGED <<pageVars, paletteVars>>

----------------------------------------------------------------------------
(* The command palette (CommandPaletteProvider and CommandPaletteOverlay) *)
(*                                                                         *)
(* A text is the sequence of its characters, each a one-character string.  *)
(* commandList, memoized on the version counter that every registration    *)
(* and cleanup increments, is always the values of commandsRef.            *)

\* String.prototype.toLowerCase over the letters in use
toLowerCase(text) ==
    [i \in 1..Len(text) |->
        CASE text[i] = "A" -> "a" [] text[i] = "B" -> "b" [] text[i] = "C" -> "c"
          [] OTHER -> text[i]]

\* String.prototype.trim: the spaces at both ends are removed
trim(text) ==
    LET inked == {i \in 1..Len(text) : text[i] # " "}
    IN IF inked = {} THEN <<>>
       ELSE SubSeq(text, CHOOSE i \in inked : \A j \in inked : i <= j,
                         CHOOSE i \in inked : \A j \in inked : j <= i)

\* String.prototype.includes
includes(haystack, needle) ==
    \E i \in 0..(Len(haystack) - Len(needle)) :
        SubSeq(haystack, i + 1, i + Len(needle)) = needle

RECURSIVE join(_)
\* Array.prototype.join(' '): an undefined element reads as the empty text
join(parts) ==
    IF parts = <<>> THEN <<>>
    ELSE IF Len(parts) = 1 THEN parts[1]
    ELSE parts[1] \o <<" ">> \o join(Tail(parts))

\* [command.title, command.subtitle, ...(command.keywords || [])].join(' ')
haystackOf(command) == join(<<command.title, command.subtitle>> \o command.keywords)

\* the order of the lower-case letters a title is written in
LetterRank(c) == CASE c = "a" -> 1 [] c = "b" -> 2 [] c = "c" -> 3

\* a.localeCompare(b) for titles of lower-case letters: negative, 0 or positive
localeCompare(a, b) ==
    LET differ == {k \in 1..Min(Len(a), Len(b)) : a[k] # b[k]}
    IN IF differ = {}
       THEN (IF Len(a) < Len(b) THEN -1 ELSE IF Len(a) > Len(b) THEN 1 ELSE 0)
       ELSE LET k == CHOOSE i \in differ : \A j \in differ : i <= j
            IN IF LetterRank(a[k]) < LetterRank(b[k]) THEN -1 ELSE 1

\* Array.from(commandsRef.current.values())
commandListOf(ref) == [i \in 1..Len(ref) |-> ref[i].val]

\* the filteredCommands memo: the commands sorted by title (a stable sort),
\* all of them for a blank query, else those whose haystack has the query
filteredCommandsOf(commands, query) ==
    LET trimmedQuery == toLowerCase(trim(query))
        pos(i) == 1 + Cardinality({j \in 1..Len(commands) :
                        \/ localeCompare(commands[j].title, commands[i].title) < 0
                        \/ /\ localeCompare(commands[j].title, commands[i].title) = 0
                           /\ j < i})
        allCommands == [p \in 1..Len(commands) |->
                          commands[CHOOSE i \in 1..Len(commands) : pos(i) = p]]
    IN IF trimmedQuery = <<>> THEN allCommands
       ELSE SeqFilter(allCommands,
               [i \in 1..Len(allCommands) |->
                   includes(toLowerCase(haystackOf(allCommands[i])), trimmedQuery)])

\* filteredCommands as the overlay sees it
filteredCommands == filteredCommandsOf(commandListOf(commandsRef), searchQuery)

RECURSIVE setCommands(_, _)
\* commands.forEach(command => commandsRef.current.set(command.id, command))
setCommands(ref, commands) ==
    IF commands = <<>> THEN ref
    ELSE setCommands(MapSet(ref, Head(commands).id, Head(commands)), Tail(commands))

\* commands.forEach(command => commandsRef.current.delete(command.id))
deleteCommands(ref, commands) ==
    SeqFilter(ref, [i \in 1..Len(ref) |->
                      \A k \in 1..Len(commands) : commands[k].id # ref[i].key])

\* the provider and the overlay after their first render
PaletteMount ==
    /\ commandsRef = <<>>
    /\ cleanups = {}
    /\ isOpen = FALSE
    /\ searchQuery = <<>>
    /\ activeIndex = 0
    /\ lastCommand = Null

\* setIsOpen(true) followed by the overlay's effect on [isOpen]: the index is
\* reset when the palette was closed
Opened ==
    /\ isOpen' = TRUE
    /\ activeIndex' = IF isOpen THEN activeIndex ELSE 0

\* a component registers a batch of commands
RegisterCommands(batches) ==
    \E commands \in batches :
        /\ commands \notin cleanups
        /\ commandsRef' = setCommands(commandsRef, commands)
        /\ cleanups' = cleanups \cup {commands}
        /\ UNCHANGED <<isOpen, searchQuery, activeIndex, lastCommand>>
        /\ UNCHANGED <<pageVars, storeVars>>

\* the cleanup a registerCommands call returned runs
UnregisterCommands ==
    \E commands \in cleanups :
        /\ commandsRef' = deleteCommands(commandsRef, commands)
        /\ cleanups' = cleanups \ {commands}
        /\ UNCHANGED <<isOpen, searchQuery, activeIndex, lastCommand>>
        /\ UNCHANGED <<pageVars, storeVars>>

\* openPalette(options); options is Null or a query
openPalette(queryOptions) ==
    \E options \in queryOptions :
        /\ searchQuery' = IF options # Null /\ options[1] # <<>> THEN options[1]
                          ELSE searchQuery
        /\ Opened
        /\ UNCHANGED <<commandsRef, cleanups, lastCommand>>
        /\ UNCHANGED <<pageVars, storeVars>>

\* closePalette(), also the overlay's onClose (a click on the backdrop)
closePalette ==
    /\ isOpen' = FALSE
    /\ searchQuery' = <<>>
    /\ UNCHANGED <<commandsRef, cleanups, activeIndex, lastCommand>>
    /\ UNCHANGED <<pageVars, storeVars>>

\* the input's onChange, while the overlay is rendered
onSearchChange(queries) ==
    \E value \in queries :
        /\ isOpen
        /\ value # searchQuery
        /\ searchQuery' = value
        /\ UNCHANGED <<commandsRef, cleanups, isOpen, activeIndex, lastCommand>>
        /\ UNCHANGED <<pageVars, storeVars>>

\* a click on a listed command: command.action(); onClose()
ClickCommand ==
    \E i \in 1..Len(filteredCommands) :
        /\ isOpen
        /\ lastCommand' = Some(filteredCommands[i].id)
        /\ isOpen' = FALSE
        /\ searchQuery' = <<>>
        /\ UNCHANGED <<commandsRef, cleanups, activeIndex>>
        /\ UNCHANGED <<pageVars, storeVars>>

\* the keys the two keydown handlers look at
Keys == {"Ctrl+K", "Escape", "ArrowDown", "Tab", "ArrowUp", "Shift+Tab", "Enter"}

\* a keydown event on the window: handleKeyDown of the provider and
\* handleKeyNavigation of the overlay both receive it
KeyDown ==
    \E key \in Keys :
        LET length == Len(filteredCommands)
            navigates == isOpen /\ length # 0
            runs == navigates /\ key = "Enter" /\ activeIndex < length
        IN /\ CASE key = "Ctrl+K" -> Opened
                [] key = "Escape" -> isOpen' = FALSE /\ activeIndex' = activeIndex
                [] key \in {"ArrowDown", "Tab"} ->
                     /\ activeIndex' = IF navigates
                                       THEN (activeIndex + 1) % Max(length, 1)
                                       ELSE activeIndex
                     /\ isOpen' = isOpen
                [] key \in {"ArrowUp", "Shift+Tab"} ->
                     /\ activeIndex' = IF ~navigates THEN activeIndex
                                       ELSE IF activeIndex = 0 THEN Max(length - 1, 0)
                                       ELSE activeIndex - 1
                     /\ isOpen' = isOpen
                [] key = "Enter" ->
                     /\ isOpen' = IF runs THEN FALSE ELSE isOpen
                     /\ activeIndex' = activeIndex
           /\ searchQuery' = IF runs THEN <<>> ELSE searchQuery
           /\ lastCommand' = IF runs THEN Some(filteredCommands[activeIndex + 1].id)
                             ELSE lastCommand
           /\ UNCHANGED <<commandsRef, cleanups>>
           /\ UNCHANGED <<pageVars, storeVars>>

----------------------------------------------------------------------------
(* Inputs *)

\* the day the page is mounted on
Day0 == 100

MaxArticles == 2

SeqsUpTo(U, n) == UNION {[1..k -> U] : k \in 0..n}

Article(id, feedId, published, created, isRead, topics, score) ==
    [id |-> id, feed_id |-> feedId, published_date |-> published,
     created_at |-> created, is_read |-> isRead, is_bookmarked |-> ~isRead,
     topics |-> topics, sentiment_score |-> score]

Feed(id, title, isActive) == [id |-> id, title |-> title, is_active |-> isActive]

\* the page is mounted at the start or at the end of Day0
MountInstants == {DateAt(Day0, h) : h \in TimesOfDay}

\* Dates around the edges of the 7-day window of Day0: the last instant of the
\* day before it, the first and last instant of its first day, today, tomorrow.
WindowDates ==
    {DateAt(Day0 - 7, HoursPerDay - 1), DateAt(Day0 - 6, 0),
     DateAt(Day0 - 6, HoursPerDay - 1), DateAt(Day0, 0), DateAt(Day0 + 1, 0)}

\* [published_date, created_at] of an article with no usable date, of one
\* whose published_date does not parse, of one with created_at only
UndatedFields ==
    {<<Null, Some(BadString)>>,
     <<Some(BadString), Some(IsoString(DateAt(Day0, 0)))>>,
     <<Null, Some(IsoString(DateAt(Day0, 0)))>>}

\* the articles a snapshot is made of; a refetch numbers them 1, 2, ...
WindowArticles ==
    {Article(0, 1, Some(IsoString(t)), Some(IsoString(t)), isRead, Null, Null) :
     t \in WindowDates, isRead \in BOOLEAN}
        \cup {Article(0, 1, d[1], d[2], FALSE, Null, Null) : d \in UndatedFields}

\* what the first fetch delivers: the empty list
EmptySnapshots == {<<>>}

WindowFeeds == {<<Feed(1, Some("Feed A"), TRUE)>>}

----------------------------------------------------------------------------
(* Specification: the page over dated articles, rendered within one day *)

\* the token of a signed-in session
SessionToken == Some("token")

\* The analytics page is behind PrivateRoute: it mounts in an application
\* loaded with a stored token.
Init ==
    /\ CreateStore(SessionToken)
    /\ \E clock \in MountInstants : Mount(clock)
    /\ PaletteMount

Next ==
    \/ SetTimeRange
    \/ ArticlesLoaded(EmptySnapshots)
    \/ ArticlesRefetched(WindowArticles, MaxArticles)
    \/ FeedsLoaded(WindowFeeds)
    \/ Tick(MountInstants)

Spec == Init /\ [][Next]_vars

----------------------------------------------------------------------------
(* Properties of the window, the filter and the daily series (under Spec) *)

Today == formatDateKey(now)

SumOfTotals(points) ==
    Cardinality(UNION {{i} \X (1..points[i].total) : i \in 1..Len(points)})

\* C1: readCount + unreadCount = total = the number of filtered articles, and
\* read + unread = total in every feedPerformance entry and every dailyActivity
\* point, for every time range and snapshot.
C1_ReadPlusUnreadIsTotal ==
    /\ engagement # Null =>
         /\ engagement[1].total = Len(filteredArticles)
         /\ engagement[1].readCount + engagement[1].unreadCount = engagement[1].total
         /\ \A i \in 1..Len(engagement[1].feedPerformance) :
               LET e == engagement[1].feedPerformance[i]
               IN e.read + e.unread = e.total
    /\ \A i \in 1..Len(dailyActivity) :
          dailyActivity[i].read + dailyActivity[i].unread = dailyActivity[i].total

\* a read and an unread article of the same day are both in view
C1_Witness ==
    /\ engagement # Null
    /\ engagement[1].readCount = 1
    /\ engagement[1].unreadCount = 1
    /\ Len(engagement[1].feedPerformance) = 1
    /\ engagement[1].feedPerformance[1].unread = 1
    /\ \E i \in 1..Len(dailyActivity) :
          dailyActivity[i].read = 1 /\ dailyActivity[i].unread = 1

\* C2: in a finite range N the series has exactly N points, whose keys are the
\* consecutive days today-(N-1) .. today, strictly ascending, for any loaded
\* snapshot, the empty one included.
C2_FiniteWindowDays ==
    (articles # Null /\ timeRange # "all") =>
        LET n == parseInt(timeRange)
        IN /\ Len(dailyActivity) = n
           /\ \A i \in 1..n : dailyActivity[i].dateKey = Today - (n - 1) + (i - 1)
           /\ \A i \in 1..n : \A j \in 1..n :
                 i < j => dailyActivity[i].dateKey < dailyActivity[j].dateKey

\* the empty snapshot in the 90-day range: 90 zero points
C2_Witness ==
    /\ articles = Some(<<>>)
    /\ timeRange = "90"
    /\ Len(dailyActivity) = 90
    /\ dailyActivity[1].dateKey = Today - 89
    /\ dailyActivity[90].dateKey = Today
    /\ \A i \in 1..90 : dailyActivity[i].total = 0

\* C3 (as claimed): the totals of the dailyActivity points add up to the number
\* of filtered articles that have a parseable date, articles dated after today
\* included.
C3_TotalsSumToDatedArticles ==
    articles # Null =>
        SumOfTotals(dailyActivity)
            = Cardinality({i \in 1..Len(filteredArticles) :
                             parseArticleDate(filteredArticles[i]) # Null})

\* C4 (as claimed): in a finite range N an article dated at any instant of the
\* days today-(N-1) .. today is in the filtered list, and an article dated on
\* an earlier day is not.
C4_InclusiveWindow ==
    (articles # Null /\ timeRange # "all") =>
        LET n == parseInt(timeRange)
            InView(a) == \E j \in 1..Len(filteredArticles) : filteredArticles[j] = a
        IN \A i \in 1..Len(articles[1]) :
              LET a == articles[1][i]
                  d == parseArticleDate(a)
              IN d # Null =>
                   /\ formatDateKey(d[1]) \in (Today - (n - 1))..Today => InView(a)
                   /\ formatDateKey(d[1]) < Today - (n - 1) => ~InView(a)

\* the effective date as specified: the publication date if present and
\* parseable, else the ingestion date if parseable, else null
EffectiveDate(a) ==
    IF a.published_date # Null /\ a.published_date[1].valid
    THEN Some(a.published_date[1].t)
    ELSE IF a.created_at # Null /\ a.created_at[1].valid
    THEN Some(a.created_at[1].t)
    ELSE Null

\* C5 (as claimed): the filtered list is the snapshot's articles, in snapshot
\* order, that pass the rule: every article when the range is 'all' (cutoffDate
\* null), otherwise exactly those whose effective date is non-null and
\* >= cutoffDate.
C5_FilterRule ==
    /\ (timeRange = "all") = (cutoffDate = Null)
    /\ articles = Null => filteredArticles = <<>>
    /\ articles # Null =>
         LET Passes(a) ==
                 \/ timeRange = "all"
                 \/ /\ EffectiveDate(a) # Null
                    /\ EffectiveDate(a)[1] >= cutoffDate[1]
         IN /\ {filteredArticles[j] : j \in 1..Len(filteredArticles)}
                 = {articles[1][i] : i \in {k \in 1..Len(articles[1]) :
                                              Passes(articles[1][k])}}
            /\ \A i \in 1..Len(filteredArticles) : \A j \in 1..Len(filteredArticles) :
                  i < j => filteredArticles[i].id < filteredArticles[j].id

\* C18 (as claimed): the date the page takes for an article is its effective
\* date, so an article whose publication date does not parse and whose ingestion
\* date does is dated by the latter and kept by a finite window containing it.
C18_EffectiveDate ==
    articles # Null =>
        \A i \in 1..Len(articles[1]) :
            LET a == articles[1][i]
                d == EffectiveDate(a)
            IN /\ parseArticleDate(a) = d
               /\ (cutoffDate # Null /\ d # Null /\ d[1] >= cutoffDate[1])
                     => \E j \in 1..Len(filteredArticles) : filteredArticles[j] = a

\* C20 (as claimed): in the 'all' range dailyActivity has exactly one point for
\* each calendar day on which some article has a parseable effective date,
\* every point has total >= 1, the day keys are strictly ascending, and the
\* articles without a parseable date are in no point.
C20_AllRangeOnePointPerDay ==
    (articles # Null /\ timeRange = "all") =>
        LET dated == {i \in 1..Len(articles[1]) : EffectiveDate(articles[1][i]) # Null}
            days == {formatDateKey(EffectiveDate(articles[1][i])[1]) : i \in dated}
        IN /\ {dailyActivity[i].dateKey : i \in 1..Len(dailyActivity)} = days
           /\ Len(dailyActivity) = Cardinality(days)
           /\ \A i \in 1..Len(dailyActivity) : dailyActivity[i].total >= 1
           /\ \A i \in 1..Len(dailyActivity) : \A j \in 1..Len(dailyActivity) :
                 i < j => dailyActivity[i].dateKey < dailyActivity[j].dateKey
           /\ SumOfTotals(dailyActivity) = Cardinality(dated)

\* C27 (as claimed): uniqueDays is the number of distinct calendar days of
\* the filtered articles with a parseable effective date and, when that number
\* is 0, N in a finite range N and 0 in the 'all' range; averagePerDay is
\* round(total / uniqueDays) when uniqueDays > 0 and total otherwise, and it is
\* never more than total.
C27_UniqueDays ==
    engagement # Null =>
        LET dated == {i \in 1..Len(filteredArticles) :
                         EffectiveDate(filteredArticles[i]) # Null}
            days == {formatDateKey(EffectiveDate(filteredArticles[i])[1]) : i \in dated}
            n == timeRangeDaysOf(timeRange)
            expected == IF Cardinality(days) # 0 THEN Cardinality(days)
                        ELSE IF n # Null THEN n[1] ELSE 0
            total == engagement[1].total
        IN /\ engagement[1].uniqueDays = expected
           /\ engagement[1].averagePerDay
                 = (IF expected > 0 THEN RoundDiv(total, expected) ELSE total)
           /\ engagement[1].averagePerDay <= total

----------------------------------------------------------------------------
(* Specification: the page over one article a day, for the read streak *)

\* the days before and including Day0 that carry articles
StreakDays == 7

\* A read article at the last instant of each of the StreakDays days up to
\* Day0, and an unread one on Day0 and on Day0 - 4.
StreakArticles ==
    {Article(0, 1, Some(IsoString(DateAt(Day0 - k, HoursPerDay - 1))),
             Some(IsoString(DateAt(Day0 - k, HoursPerDay - 1))), TRUE, Null, Null) :
     k \in 0..(StreakDays - 1)}
        \cup {Article(0, 1, Some(IsoString(DateAt(Day0 - k, HoursPerDay - 1))),
                      Some(IsoString(DateAt(Day0 - k, HoursPerDay - 1))), FALSE, Null, Null) :
              k \in {0, 4}}

\* the snapshot is ordered by date: a new article is later than the last one
LaterStreakArticles ==
    IF articles = Null \/ articles = Some(<<>>) THEN StreakArticles
    ELSE {a \in StreakArticles :
            a.published_date[1].t > articles[1][Len(articles[1])].published_date[1].t}

NextStreak ==
    \/ SetTimeRange
    \/ ArticlesLoaded(EmptySnapshots)
    \/ ArticlesRefetched(LaterStreakArticles, StreakDays)

SpecStreak == Init /\ [][NextStreak]_vars

ReadsOf(points) == [i \in 1..Len(points) |-> points[i].read]

\* the length of the longest run of consecutive points that all have read > 0
LongestRun(points) ==
    LET readDays == {i \in 1..Len(points) : points[i].read > 0}
        runs == {r \in readDays \X readDays :
                   r[1] <= r[2] /\ \A k \in r[1]..r[2] : k \in readDays}
    IN IF runs = {} THEN 0
       ELSE LET longest == CHOOSE r \in runs :
                              \A q \in runs : q[2] - q[1] <= r[2] - r[1]
            IN longest[2] - longest[1] + 1

\* C10: over the zero-filled series of a finite range longestReadStreak is the
\* length of the longest run of consecutive points with read > 0, 0 when the
\* series is empty or has no read article, and 3 for reads [1,1,0,1,1,1,0].
C10_StreakIsLongestRun ==
    timeRange # "all" =>
        /\ longestReadStreak = LongestRun(dailyActivity)
        /\ Len(dailyActivity) = 0 => longestReadStreak = 0
        /\ (\A i \in 1..Len(dailyActivity) : dailyActivity[i].read = 0)
              => longestReadStreak = 0
        /\ ReadsOf(dailyActivity) = <<1, 1, 0, 1, 1, 1, 0>> => longestReadStreak = 3

C10_Witness ==
    /\ timeRange = "7"
    /\ ReadsOf(dailyActivity) = <<1, 1, 0, 1, 1, 1, 0>>
    /\ longestReadStreak = 3

\* the length of the longest run of consecutive calendar days that each have
\* a point with read > 0
LongestDayRun(points) ==
    LET readDays == {points[i].dateKey : i \in {k \in 1..Len(points) : points[k].read > 0}}
        runs == {r \in readDays \X readDays :
                   r[1] <= r[2] /\ \A d \in r[1]..r[2] : d \in readDays}
    IN IF runs = {} THEN 0
       ELSE LET longest == CHOOSE r \in runs :
                              \A q \in runs : q[2] - q[1] <= r[2] - r[1]
            IN longest[2] - longest[1] + 1

\* C21: over the series of the 'all' range, which has a point only for the days
\* that have articles, longestReadStreak is the length of the longest run of
\* consecutive calendar days with a read article each: read days more than one
\* day apart are in different runs and a point with read = 0 ends a run.
C21_SparseStreak ==
    timeRange = "all" => longestReadStreak = LongestDayRun(dailyActivity)

\* a day with an unread article only, then read articles on two days running,
\* a day without articles and a read article on the day after it
C21_Witness ==
    /\ timeRange = "all"
    /\ Len(dailyActivity) = 4
    /\ ReadsOf(dailyActivity) = <<0, 1, 1, 1>>
    /\ dailyActivity[3].dateKey = dailyActivity[2].dateKey + 1
    /\ dailyActivity[4].dateKey = dailyActivity[3].dateKey + 2
    /\ longestReadStreak = 2

----------------------------------------------------------------------------
(* Specification: the page over articles of many feeds, for the feed ranking *)

\* the feeds the articles of a snapshot come from are 1 .. MaxFeeds at most
MaxFeeds == 11

MaxFeedArticles == 12

\* the feed list knows every feed but the last: feed 2 has no title, feed 3
\* an empty one, the even feeds are inactive
FeedCatalog ==
    [i \in 1..(MaxFeeds - 1) |->
        Feed(i, IF i = 2 THEN Null ELSE IF i = 3 THEN Some("") ELSE Some("Feed"),
             i % 2 = 1)]

FeedsSeen == IF articles = Null THEN {}
             ELSE {articles[1][i].feed_id : i \in 1..Len(articles[1])}

\* a feed has at most MaxPerFeed articles
MaxPerFeed == 2

\* Today's next article is the first one of the next feed (a read one), or one
\* more of the feed seen last (an unread one).
NextFeedArticles ==
    LET c == Cardinality(FeedsSeen)
        ofLast == Cardinality({i \in 1..Len(articles[1]) : articles[1][i].feed_id = c})
        today == Some(IsoString(DateAt(Day0, 0)))
    IN (IF c < MaxFeeds THEN {Article(0, c + 1, today, today, TRUE, Null, Null)} ELSE {})
          \cup (IF c >= 1 /\ ofLast < MaxPerFeed
                THEN {Article(0, c, today, today, FALSE, Null, Null)} ELSE {})

NextFeeds ==
    \/ ArticlesLoaded(EmptySnapshots)
    \/ ArticlesRefetched(NextFeedArticles, MaxFeedArticles)
    \/ FeedsLoaded({FeedCatalog})

SpecFeeds == Init /\ [][NextFeeds]_vars

\* C7: feedPerformance has at most 10 entries, each with total > 0, sorted
\* non-increasing by total, and the chart list is its first min(8, length)
\* entries.
C7_FeedRanking ==
    engagement # Null =>
        LET fp == engagement[1].feedPerformance
        IN /\ Len(fp) <= 10
           /\ \A i \in 1..Len(fp) : fp[i].total > 0
           /\ \A i \in 1..Len(fp) : \A j \in 1..Len(fp) :
                 i < j => fp[i].total >= fp[j].total
           /\ topFeedsForChart = [i \in 1..Min(8, Len(fp)) |-> fp[i]]

\* eleven feeds in view, the last one with two articles: it ranks first, one
\* feed is cut from the list and two more from the chart
C7_Witness ==
    /\ engagement # Null
    /\ Cardinality({filteredArticles[i].feed_id : i \in 1..Len(filteredArticles)}) = 11
    /\ Len(engagement[1].feedPerformance) = 10
    /\ engagement[1].feedPerformance[1].feedId = 11
    /\ engagement[1].feedPerformance[1].total = 2
    /\ Len(topFeedsForChart) = 8

----------------------------------------------------------------------------
(* Specification: the page over scored articles and the server's sentiment   *)
(* aggregate                                                                  *)

MaxExternalCount == 2

\* what /articles/analytics/sentiment may answer: counts and a total, each
\* chosen on its own
ExternalAggregates ==
    {[positive |-> p, slightly_positive |-> 0, neutral |-> 0,
      slightly_negative |-> 0, negative |-> g, total |-> t,
      daily_trends |-> Some(<<>>)] :
     p \in 0..MaxExternalCount, g \in 0..1, t \in 0..MaxExternalCount}

\* no score, 0.6, -0.6, 0.05 and 0
SentimentScores == {Null, Some(60), Some(0 - 60), Some(5), Some(0)}

SentimentArticles ==
    {Article(0, 1, Some(IsoString(DateAt(Day0, 0))), Some(IsoString(DateAt(Day0, 0))),
             FALSE, Null, score) : score \in SentimentScores}

NextSentiment ==
    \/ ArticlesLoaded(EmptySnapshots)
    \/ ArticlesRefetched(SentimentArticles, MaxArticles)
    \/ FeedsLoaded(WindowFeeds)
    \/ SentimentLoaded(ExternalAggregates)

SpecSentiment == Init /\ [][NextSentiment]_vars

SumOfValues(buckets) ==
    Cardinality(UNION {{i} \X (1..buckets[i].value) : i \in 1..Len(buckets)})

\* C6 (as claimed): once the snapshot is computed every percent field is an
\* integer in 0..100: engagement.readRate, every feedPerformance readRate and
\* every sentiment bucket percent, from the external aggregate or the fallback.
C6_PercentsInRange ==
    engagement # Null =>
        /\ engagement[1].readRate \in 0..100
        /\ \A i \in 1..Len(engagement[1].feedPerformance) :
              engagement[1].feedPerformance[i].readRate \in 0..100
        /\ \A i \in 1..Len(sentimentBuckets) : sentimentBuckets[i].percent \in 0..100

\* C8 (as claimed): the five bucket values add up to at most the number of
\* filtered articles, whichever source they come from, and in the fallback
\* case to exactly that number only when every filtered article has a score.
C8_BucketValuesWithinTotal ==
    engagement # Null =>
        /\ SumOfValues(sentimentBuckets) <= engagement[1].total
        /\ (/\ ~(sentimentAnalytics # Null /\ sentimentAnalytics[1].total > 0)
            /\ SumOfValues(sentimentBuckets) = engagement[1].total)
              => \A i \in 1..Len(filteredArticles) :
                    filteredArticles[i].sentiment_score # Null

\* p is Math.round(v / t * 100) for v >= 0 and t > 0
IsRoundedPercent(p, v, t) == 2 * t * p <= 200 * v + t /\ 200 * v + t < 2 * t * (p + 1)

FixedBucketOrder ==
    <<"positive", "slightlyPositive", "neutral", "slightlyNegative", "negative">>

\* C11: with an external aggregate whose total is > 0 there are exactly five
\* buckets, in the order positive, slightlyPositive, neutral, slightlyNegative,
\* negative, whose values are the aggregate's counts and whose percent is
\* round(value / external total * 100); the local counters play no part.
C11_ExternalBucketsVerbatim ==
    (sentimentAnalytics # Null /\ sentimentAnalytics[1].total > 0) =>
        LET sa == sentimentAnalytics[1]
            counts == <<sa.positive, sa.slightly_positive, sa.neutral,
                        sa.slightly_negative, sa.negative>>
        IN /\ Len(sentimentBuckets) = 5
           /\ \A i \in 1..5 :
                 /\ sentimentBuckets[i].id = FixedBucketOrder[i]
                 /\ sentimentBuckets[i].value = counts[i]
                 /\ IsRoundedPercent(sentimentBuckets[i].percent, counts[i], sa.total)

\* the aggregate says 1 positive of 2 while the local counters say 1 negative
\* of 1: the buckets show positive 1, 50 percent
C11_Witness ==
    /\ sentimentAnalytics # Null
    /\ sentimentAnalytics[1].total = 2
    /\ sentimentAnalytics[1].positive = 1
    /\ engagement # Null
    /\ engagement[1].fallbackSentiments["negative"] = 1
    /\ engagement[1].fallbackSentiments["positive"] = 0
    /\ Len(sentimentBuckets) = 5
    /\ sentimentBuckets[1].value = 1
    /\ sentimentBuckets[1].percent = 50
    /\ sentimentBuckets[5].value = sentimentAnalytics[1].negative

\* C12 (as claimed): without an external aggregate, or with one whose total is
\* not > 0, the buckets carry the local fallback counters and each percent is
\* round(value / S * 100), S being the sum of the five counters (0 when S = 0),
\* also when an aggregate with total 0 is present.
C12_FallbackPercents ==
    (engagement # Null
        /\ ~(sentimentAnalytics # Null /\ sentimentAnalytics[1].total > 0)) =>
        LET f == engagement[1].fallbackSentiments
            S == f["positive"] + f["slightlyPositive"] + f["neutral"]
                   + f["slightlyNegative"] + f["negative"]
        IN /\ Len(sentimentBuckets) = 5
           /\ \A i \in 1..5 :
                 /\ sentimentBuckets[i].id = FixedBucketOrder[i]
                 /\ sentimentBuckets[i].value = f[FixedBucketOrder[i]]
                 /\ IF S = 0 THEN sentimentBuckets[i].percent = 0
                    ELSE IsRoundedPercent(sentimentBuckets[i].percent,
                                          f[FixedBucketOrder[i]], S)

\* C26 (as claimed): a feedPerformance entry of source id s is named by the
\* source's title whenever that title is not null, the empty string included,
\* and "Untitled" only when the title is null or no source has id s; active is
\* the source's is_active, false for an unknown source; readRate is
\* round(read / total * 100).
C26_FeedNames ==
    (engagement # Null /\ feeds # Null) =>
        LET fp == engagement[1].feedPerformance
            known(s) == {i \in 1..Len(feeds[1]) : feeds[1][i].id = s}
        IN \A k \in 1..Len(fp) :
              /\ known(fp[k].feedId) = {} =>
                    fp[k].name = "Untitled" /\ fp[k].active = FALSE
              /\ \A i \in known(fp[k].feedId) :
                    /\ fp[k].name = IF feeds[1][i].title # Null
                                    THEN feeds[1][i].title[1] ELSE "Untitled"
                    /\ fp[k].active = feeds[1][i].is_active
              /\ fp[k].readRate = RoundPercent(fp[k].read, fp[k].total)

----------------------------------------------------------------------------
(* Specification: the page over articles with topics and one cluster *)

\* the most article ids a cluster lists
MaxClusterIds == 2

\* the ids a cluster may list; the last one is never an article's id
ClusterIdLists == SeqsUpTo(1..(MaxArticles + 1), MaxClusterIds)

TopicLists ==
    {Null, Some(<<"AI", "Tech">>), Some(<<"AI", "Climate">>),
     Some(<<"Tech", "2024">>), Some(<<"Finland", "7", "2024">>)}

TopicArticles ==
    {Article(0, 1, Some(IsoString(DateAt(Day0, 0))), Some(IsoString(DateAt(Day0, 0))),
             FALSE, topics, Null) : topics \in TopicLists}

NextCluster ==
    \/ ArticlesLoaded(EmptySnapshots)
    \/ ArticlesRefetched(TopicArticles, MaxArticles)
    \/ ClusterDataLoaded(ClusterIdLists)

SpecCluster == Init /\ [][NextCluster]_vars

\* the topics of the cluster's member articles, in the order they are met
MemberTopics == IF articles = Null \/ clusterData = Null THEN <<>>
                ELSE collectTopics(<<>>, clusterData[1], articles[1])

TopicCount(topic) ==
    Cardinality({i \in 1..Len(MemberTopics) : MemberTopics[i] = topic})

FirstSeen(topic) ==
    CHOOSE i \in 1..Len(MemberTopics) :
        /\ MemberTopics[i] = topic
        /\ \A j \in 1..(i - 1) : MemberTopics[j] # topic

\* t ranks before u: more frequent, or as frequent and seen first
RanksBefore(t, u) ==
    \/ TopicCount(t) > TopicCount(u)
    \/ TopicCount(t) = TopicCount(u) /\ FirstSeen(t) < FirstSeen(u)

\* C9 (as claimed): getClusterTopics returns at most 3 topics, the most
\* frequent first, equally frequent ones in first-seen order, for every topic
\* string, those that read as a non-negative integer included.
C9_TopTopicsByFrequencyThenFirstSeen ==
    (articles # Null /\ clusterData # Null) =>
        LET distinct == {MemberTopics[i] : i \in 1..Len(MemberTopics)}
            listed == {clusterTopics[i] : i \in 1..Len(clusterTopics)}
        IN /\ Len(clusterTopics) = Min(3, Cardinality(distinct))
           /\ listed \subseteq distinct
           /\ \A i \in 1..Len(clusterTopics) : \A j \in 1..Len(clusterTopics) :
                 i < j => RanksBefore(clusterTopics[i], clusterTopics[j])
           /\ \A t \in listed : \A u \in distinct \ listed : RanksBefore(t, u)

\* C29 (as claimed): getClusterTopics of the Analytics page and
\* getClusterTopics of the Clusters page return the same topic list for the
\* same id list and articles, whatever the order of the ids, with repeated
\* ids and with ids of no article.
C29_ExtractorsAgree ==
    (articles # Null /\ clusterData # Null) =>
        /\ clusterTopics = getClusterTopics(clusterData[1], articles)
        /\ clusterTopics = Clusters_getClusterTopics(clusterData[1], articles)

----------------------------------------------------------------------------
(* Specification: the page over articles with many topics and the server's   *)
(* topic trends                                                              *)

\* nine topics over the first two lists, a tenth in the third
TrendTopicLists ==
    {Null, Some(<<"AI", "Tech", "Climate", "Finland", "Economy">>),
     Some(<<"Sports", "Health", "Science", "Space">>),
     Some(<<"AI", "Space", "Energy">>)}

TrendArticles ==
    {Article(0, 1, Some(IsoString(DateAt(Day0, 0))), Some(IsoString(DateAt(Day0, 0))),
             FALSE, topics, Null) : topics \in TrendTopicLists}

\* what /articles/analytics/topics may answer for trending_topics
TrendLists ==
    {<<>>,
     <<[topic |-> "Elections", count |-> 5, growth |-> 50]>>,
     <<[topic |-> "Tech", count |-> 3, growth |-> 0 - 10],
       [topic |-> "AI", count |-> 3, growth |-> 0]>>}

NextTopics ==
    \/ SetTimeRange
    \/ ArticlesLoaded(EmptySnapshots)
    \/ ArticlesRefetched(TrendArticles, MaxArticles)
    \/ FeedsLoaded(WindowFeeds)
    \/ TopicTrendsLoaded(TrendLists)

SpecTopics == Init /\ [][NextTopics]_vars

\* C13: trendingTopics is the external trend list as delivered (entries, order,
\* topic, count, growth) when that list is present and not empty; otherwise
\* it is the first min(8, length) entries of engagement.topTopics, in order,
\* each with growth null (and empty while there is no engagement).
C13_TrendingTopics ==
    IF topicTrends # Null /\ topicTrends[1] # <<>>
    THEN trendingTopics = topicTrends[1]
    ELSE IF engagement = Null THEN trendingTopics = <<>>
    ELSE LET top == engagement[1].topTopics
         IN /\ Len(trendingTopics) = Min(8, Len(top))
            /\ \A i \in 1..Len(trendingTopics) :
                  /\ trendingTopics[i].topic = top[i].topic
                  /\ trendingTopics[i].count = top[i].count
                  /\ trendingTopics[i].growth = Null

\* the server answered with an empty list and the articles carry nine topics:
\* the first eight are listed
C13_Witness ==
    /\ topicTrends = Some(<<>>)
    /\ engagement # Null
    /\ Len(engagement[1].topTopics) = 9
    /\ Len(trendingTopics) = 8
    /\ trendingTopics[1].growth = Null

----------------------------------------------------------------------------
(* Specification: the page while the clock advances within the day it was    *)
(* mounted on                                                                *)

\* the clock readings of Day0: its first instant, midday and its last instant
DayInstants == MountInstants \cup {DateAt(Day0, HoursPerDay \div 2)}

NextDay ==
    \/ SetTimeRange
    \/ ArticlesLoaded(EmptySnapshots)
    \/ ArticlesRefetched(WindowArticles, MaxArticles)
    \/ FeedsLoaded(WindowFeeds)
    \/ Tick(DayInstants)

SpecDay == Init /\ [][NextDay]_vars

----------------------------------------------------------------------------
(* Specification: the auth store under setUser, logout, sign-in and reload   *)

\* the most calls and re-creations in one behaviour
MaxCalls == 3

StoreUsers ==
    {Null, Some([id |-> 1, email |-> "user1@example.com"]),
     Some([id |-> 2, email |-> "user2@example.com"])}

\* access_token values a sign-in may deliver
Tokens == {"", "token"}

Emails == {"user1@example.com"}

\* the analytics page is not on screen: its hooks hold nothing
Unmounted ==
    /\ now = DateAt(Day0, 0)
    /\ timeRange = "30"
    /\ articles = Null
    /\ feeds = Null
    /\ sentimentAnalytics = Null
    /\ clusterData = Null
    /\ topicTrends = Null
    /\ cutoffDate = Null
    /\ filteredArticles = <<>>
    /\ engagement = Null
    /\ dailyActivity = <<>>
    /\ longestReadStreak = 0
    /\ sentimentBuckets = <<>>
    /\ topFeedsForChart = <<>>
    /\ trendingTopics = <<>>
    /\ sentimentTrendData = <<>>
    /\ clusterTopics = <<>>

\* the application is loaded with or without a stored token
InitAuth ==
    /\ Unmounted
    /\ \E token \in {Null, SessionToken} : CreateStore(token)
    /\ PaletteMount

NextAuth ==
    \/ SetUser(StoreUsers, MaxCalls)
    \/ Logout(MaxCalls)
    \/ LoginSucceeded(Tokens, Emails, MaxCalls)
    \/ AuthCallback(Tokens, MaxCalls)
    \/ Reload(MaxCalls)

SpecAuth == InitAuth /\ [][NextAuth]_vars

\* the position in calls of the creation of the present store (0: the first)
Created ==
    LET creations == {i \in 1..Len(calls) : calls[i].op = "create"}
    IN IF creations = {} THEN 0
       ELSE CHOOSE i \in creations : \A j \in creations : j <= i

\* the positions in calls of the setUser and of the logout calls made on the
\* present store
SetUserCalls == {i \in (Created + 1)..Len(calls) : calls[i].op = "setUser"}

LogoutCalls == {i \in (Created + 1)..Len(calls) : calls[i].op = "logout"}

\* C16: once setUser or logout has been called on the store, isAuthenticated
\* is true exactly when user is non-null, and user is the argument of the most
\* recent setUser call unless a logout came after it.
C16_AuthenticatedIffUser ==
    (SetUserCalls \cup LogoutCalls # {}) =>
        /\ isAuthenticated <=> user # Null
        /\ SetUserCalls # {} =>
              LET last == CHOOSE i \in SetUserCalls : \A j \in SetUserCalls : j <= i
              IN (\A k \in LogoutCalls : k < last) => user = calls[last].arg

\* setUser(user1), setUser(user2), setUser(null) as in the store's test
C16_Witness ==
    /\ Len(calls) = 3
    /\ calls[1] = [op |-> "setUser", arg |-> Some([id |-> 1, email |-> "user1@example.com"])]
    /\ calls[2] = [op |-> "setUser", arg |-> Some([id |-> 2, email |-> "user2@example.com"])]
    /\ calls[3] = [op |-> "setUser", arg |-> Null]
    /\ user = Null
    /\ ~isAuthenticated

\* C17: after logout, from any store state, the stored access token is gone,
\* user is null and isAuthenticated is false; and a store created right
\* afterwards starts with isAuthenticated false, so that PrivateRoute redirects
\* to /login.
C17_LogoutClearsSession ==
    LET n == Len(calls)
    IN /\ (n >= 1 /\ calls[n].op = "logout") =>
             /\ accessToken = Null
             /\ user = Null
             /\ ~isAuthenticated
             /\ PrivateRoute = "/login"
       /\ (n >= 2 /\ calls[n].op = "create" /\ calls[n - 1].op = "logout") =>
             /\ user = Null
             /\ ~isAuthenticated
             /\ PrivateRoute = "/login"

\* a sign-in, a logout and a store created after it
C17_Witness ==
    /\ Len(calls) = 3
    /\ calls[1] = [op |-> "setUser", arg |-> Some([id |-> 0, email |-> "user1@example.com"])]
    /\ calls[2].op = "logout"
    /\ calls[3].op = "create"
    /\ accessToken = Null
    /\ ~isAuthenticated
    /\ PrivateRoute = "/login"

----------------------------------------------------------------------------
(* Specification: the page over the articles of today and yesterday *)

MaxDailyArticles == 3

\* read and unread articles dated today and yesterday
DailyArticles ==
    {Article(0, 1, Some(IsoString(DateAt(Day0 - k, 0))),
             Some(IsoString(DateAt(Day0 - k, 0))), isRead, Null, Null) :
     k \in {0, 1}, isRead \in BOOLEAN}

NextDaily ==
    \/ SetTimeRange
    \/ ArticlesLoaded(EmptySnapshots)
    \/ ArticlesRefetched(DailyArticles, MaxDailyArticles)

SpecDaily == Init /\ [][NextDaily]_vars

\* the snapshot is [read today, unread today-1, read today-1]
ThreeArticleExample ==
    /\ articles # Null
    /\ Len(articles[1]) = 3
    /\ [i \in 1..3 |-> articles[1][i].is_read] = <<TRUE, FALSE, TRUE>>
    /\ [i \in 1..3 |-> formatDateKey(EffectiveDate(articles[1][i])[1])]
          = <<Today, Today - 1, Today - 1>>

\* C19: in a finite range the point of day d reports the numbers of read,
\* unread and all filtered articles whose effective date is on d (zeros when
\* there is none); for [read today, unread today-1, read today-1] and range 7
\* the point of today-1 is {read 1, unread 1, total 2} and the five days before
\* it are zero.
C19_DailyCounts ==
    (articles # Null /\ timeRange # "all") =>
        /\ \A i \in 1..Len(dailyActivity) :
              LET onDay == {j \in 1..Len(filteredArticles) :
                              /\ EffectiveDate(filteredArticles[j]) # Null
                              /\ formatDateKey(EffectiveDate(filteredArticles[j])[1])
                                    = dailyActivity[i].dateKey}
              IN /\ dailyActivity[i].total = Cardinality(onDay)
                 /\ dailyActivity[i].read
                       = Cardinality({j \in onDay : filteredArticles[j].is_read})
                 /\ dailyActivity[i].unread
                       = Cardinality({j \in onDay : ~filteredArticles[j].is_read})
        /\ (timeRange = "7" /\ ThreeArticleExample) =>
              /\ Len(dailyActivity) = 7
              /\ dailyActivity[6] = [dateKey |-> Today - 1, read |-> 1, unread |-> 1,
                                      total |-> 2]
              /\ \A i \in 1..5 : /\ dailyActivity[i].read = 0
                                  /\ dailyActivity[i].unread = 0
                                  /\ dailyActivity[i].total = 0

C19_Witness ==
    /\ timeRange = "7"
    /\ ThreeArticleExample
    /\ dailyActivity[6].total = 2
    /\ dailyActivity[7].read = 1

----------------------------------------------------------------------------
(* Specification: the page over articles scored at and next to the bucket    *)
(* boundaries                                                                *)

\* 0.5, 0.49, 0.05, 0.04, 0, -0.04, -0.05, -0.49, -0.5
BoundaryScores == {50, 49, 5, 4, 0, 0 - 4, 0 - 5, 0 - 49, 0 - 50}

\* an unread article for each score, and a read and an unread one without score
ScoredArticles ==
    {Article(0, 1, Some(IsoString(DateAt(Day0, 0))), Some(IsoString(DateAt(Day0, 0))),
             FALSE, Null, Some(score)) : score \in BoundaryScores}
        \cup {Article(0, 1, Some(IsoString(DateAt(Day0, 0))),
                      Some(IsoString(DateAt(Day0, 0))), isRead, Null, Null) :
              isRead \in BOOLEAN}

NextScores ==
    \/ ArticlesLoaded(EmptySnapshots)
    \/ ArticlesRefetched(ScoredArticles, MaxArticles)
    \/ FeedsLoaded(WindowFeeds)

SpecScores == Init /\ [][NextScores]_vars

\* the bucket of a score (in hundredths) as specified
InBucket(id, score) ==
    CASE id = "positive" -> score >= 50
      [] id = "slightlyPositive" -> 5 <= score /\ score < 50
      [] id = "neutral" -> 0 - 5 < score /\ score < 5
      [] id = "slightlyNegative" -> 0 - 50 < score /\ score <= 0 - 5
      [] id = "negative" -> score <= 0 - 50

----------------------------------------------------------------------------
(* Specification: the page over many scored articles, for the percents of    *)
(* the fallback buckets                                                      *)

MaxScoredArticles == 8

\* 0.6, 0.2, 0, -0.2, -0.6 and no score: one score for each bucket
BucketScores == <<Some(60), Some(20), Some(0), Some(0 - 20), Some(0 - 60), Null>>

\* The counters do not depend on the order of the snapshot, which is taken to
\* be ordered by score: the next article has the last one's score or a later one
\* of BucketScores.
NextScoredArticles ==
    LET rank(score) == CHOOSE k \in 1..Len(BucketScores) : BucketScores[k] = score
        from == IF articles = Null \/ articles = Some(<<>>) THEN 1
                ELSE rank(articles[1][Len(articles[1])].sentiment_score)
    IN {Article(0, 1, Some(IsoString(DateAt(Day0, 0))), Some(IsoString(DateAt(Day0, 0))),
                FALSE, Null, BucketScores[k]) : k \in from..Len(BucketScores)}

NextPercents ==
    \/ ArticlesLoaded(EmptySnapshots)
    \/ ArticlesRefetched(NextScoredArticles, MaxScoredArticles)
    \/ FeedsLoaded(WindowFeeds)

SpecPercents == Init /\ [][NextPercents]_vars

SumOfPercents(buckets) ==
    Cardinality(UNION {{i} \X (1..buckets[i].percent) : i \in 1..Len(buckets)})

\* C23: without an external aggregate the five percents add up to a value in
\* 98..102 when some filtered article has a score, and every percent is 0 when
\* none has.
C23_FallbackPercentsSum ==
    (engagement # Null /\ sentimentAnalytics = Null) =>
        /\ Len(sentimentBuckets) = 5
        /\ IF \E j \in 1..Len(filteredArticles) :
                  filteredArticles[j].sentiment_score # Null
           THEN SumOfPercents(sentimentBuckets) \in 98..102
           ELSE \A i \in 1..5 : sentimentBuckets[i].percent = 0

\* eight scored articles, 1 + 1 + 1 + 1 + 4 over the buckets: four times 12.5
\* rounds to 13 and the percents add up to 102
C23_Witness ==
    /\ engagement # Null
    /\ sentimentAnalytics = Null
    /\ Len(filteredArticles) = 8
    /\ [i \in 1..5 |-> sentimentBuckets[i].value] = <<1, 1, 1, 1, 4>>
    /\ [i \in 1..5 |-> sentimentBuckets[i].percent] = <<13, 13, 13, 13, 50>>
    /\ SumOfPercents(sentimentBuckets) = 102

----------------------------------------------------------------------------
(* Specification: the page over the server's daily sentiment trends *)

\* the most entries of daily_trends
MaxTrendDays == 3

\* Keys of daily_trends: the last instant before the 7-day window of Day0, the
\* first instant of its first day, today, tomorrow, and a key that is no date.
TrendKeys ==
    <<IsoString(DateAt(Day0 - 7, HoursPerDay - 1)), IsoString(DateAt(Day0 - 6, 0)),
      IsoString(DateAt(Day0, 0)), IsoString(DateAt(Day0 + 1, 0)), BadString>>

\* the entry of the k-th key, with counts that tell the entries apart
TrendEntry(k) ==
    [dateKey |-> TrendKeys[k], positive |-> k, neutral |-> 0, negative |-> k + 1]

\* the entry lists of up to MaxTrendDays different keys, in any order
TrendMaps ==
    {[i \in 1..Len(ks) |-> TrendEntry(ks[i])] :
       ks \in {q \in SeqsUpTo(1..Len(TrendKeys), MaxTrendDays) :
                 \A i \in 1..Len(q) : \A j \in 1..Len(q) : i # j => q[i] # q[j]}}

\* the aggregate with daily trends, and one without the field
TrendAggregates ==
    {[positive |-> 1, slightly_positive |-> 0, neutral |-> 0, slightly_negative |-> 0,
      negative |-> 0, total |-> 1, daily_trends |-> dt] :
     dt \in {Null} \cup {Some(entries) : entries \in TrendMaps}}

\* articles with and without a score
TrendScoredArticles ==
    {Article(0, 1, Some(IsoString(DateAt(Day0, 0))), Some(IsoString(DateAt(Day0, 0))),
             FALSE, Null, score) : score \in {Null, Some(60)}}

NextTrend ==
    \/ SetTimeRange
    \/ ArticlesLoaded(EmptySnapshots)
    \/ ArticlesRefetched(TrendScoredArticles, MaxArticles)
    \/ SentimentLoaded(TrendAggregates)

SpecTrend == Init /\ [][NextTrend]_vars

\* C24: sentimentTrendData is empty without an external aggregate, whatever
\* the articles' scores; otherwise it holds exactly the entries of the external
\* map whose key parses to a date not before cutoffDate (every parseable entry
\* in the 'all' range), with the external counts, in ascending order of date.
C24_SentimentTrend ==
    /\ (timeRange = "all") = (cutoffDate = Null)
    /\ sentimentAnalytics = Null => sentimentTrendData = <<>>
    /\ (sentimentAnalytics # Null /\ sentimentAnalytics[1].daily_trends = Null)
          => sentimentTrendData = <<>>
    /\ (sentimentAnalytics # Null /\ sentimentAnalytics[1].daily_trends # Null) =>
          LET entries == sentimentAnalytics[1].daily_trends[1]
              kept == {i \in 1..Len(entries) :
                         /\ entries[i].dateKey.valid
                         /\ (cutoffDate = Null
                               \/ entries[i].dateKey.t >= cutoffDate[1])}
          IN /\ Len(sentimentTrendData) = Cardinality(kept)
             /\ \A i \in kept : \E j \in 1..Len(sentimentTrendData) :
                   /\ sentimentTrendData[j].fullDate = entries[i].dateKey.t
                   /\ sentimentTrendData[j].positive = entries[i].positive
                   /\ sentimentTrendData[j].neutral = entries[i].neutral
                   /\ sentimentTrendData[j].negative = entries[i].negative
             /\ \A i \in 1..Len(sentimentTrendData) :
                   \A j \in 1..Len(sentimentTrendData) :
                     i < j => sentimentTrendData[i].fullDate
                                <= sentimentTrendData[j].fullDate

\* range 7 and the map {tomorrow, first day of the window at 00:00, today}: the
\* middle entry is before the cutoff, the other two come out in date order
C24_Witness ==
    /\ timeRange = "7"
    /\ sentimentAnalytics # Null
    /\ sentimentAnalytics[1].daily_trends
          = Some(<<TrendEntry(4), TrendEntry(2), TrendEntry(3)>>)
    /\ Len(sentimentTrendData) = 2
    /\ sentimentTrendData[1].positive = 3
    /\ sentimentTrendData[2].positive = 4

----------------------------------------------------------------------------
(* Specification: the page over articles with more topics than topTopics     *)
(* lists                                                                     *)

\* the most articles of a snapshot
MaxTopicArticles == 3

\* Topic lists: eight topics; eight others, one of them twice, and one of the
\* first list; and no list at all.
ManyTopicLists ==
    {Null,
     Some(<<"AI", "Tech", "Climate", "Finland", "Economy", "Sports", "Health", "Science">>),
     Some(<<"Space", "Energy", "Music", "Film", "Food", "Travel", "Law", "Books", "AI",
            "Books">>)}

\* articles of today with each topic list, and one of 40 days ago with topics
ManyTopicArticles ==
    {Article(0, 1, Some(IsoString(DateAt(Day0, 0))), Some(IsoString(DateAt(Day0, 0))),
             FALSE, topics, Null) : topics \in ManyTopicLists}
    \cup {Article(0, 1, Some(IsoString(DateAt(Day0 - 40, 0))),
                   Some(IsoString(DateAt(Day0 - 40, 0))), FALSE,
                   Some(<<"Books", "Opera">>), Null)}

NextTopTopics ==
    \/ SetTimeRange
    \/ ArticlesLoaded(EmptySnapshots)
    \/ ArticlesRefetched(ManyTopicArticles, MaxTopicArticles)
    \/ FeedsLoaded(WindowFeeds)

SpecTopTopics == Init /\ [][NextTopTopics]_vars

\* the topic occurrences of the filtered articles as <<article, position>>
FilteredOccurrences ==
    UNION {{<<i, k>> : k \in 1..Len(filteredArticles[i].topics[1])} :
             i \in {n \in 1..Len(filteredArticles) : filteredArticles[n].topics # Null}}

TopicAt(o) == filteredArticles[o[1]].topics[1][o[2]]

Occurrences(topic) == Cardinality({o \in FilteredOccurrences : TopicAt(o) = topic})

\* o is met before q when the filtered list is read in order
MetBefore(o, q) == o[1] < q[1] \/ (o[1] = q[1] /\ o[2] < q[2])

\* topic t is first met before topic u
FirstMetBefore(t, u) ==
    \E o \in FilteredOccurrences :
        /\ TopicAt(o) = t
        /\ \A q \in FilteredOccurrences : TopicAt(q) = u => MetBefore(o, q)

\* C25: topTopics has at most 15 entries; each count is the number of
\* occurrences of the topic in the topic lists of the filtered articles;
\* the entries are in descending order of count, equal counts in the order
\* the topics were first met in the filtered list; and no topic outside the
\* list has a larger count than one in it.
C25_TopTopics ==
    engagement # Null =>
        LET top == engagement[1].topTopics
            met == {TopicAt(o) : o \in FilteredOccurrences}
            listed == {top[i].topic : i \in 1..Len(top)}
        IN /\ Len(top) <= 15
           /\ Len(top) = Min(15, Cardinality(met))
           /\ Cardinality(listed) = Len(top)
           /\ \A i \in 1..Len(top) : top[i].count = Occurrences(top[i].topic)
           /\ \A i \in 1..Len(top) : \A j \in 1..Len(top) :
                 i < j => \/ top[i].count > top[j].count
                          \/ /\ top[i].count = top[j].count
                             /\ FirstMetBefore(top[i].topic, top[j].topic)
           /\ \A t \in met \ listed : \A i \in 1..Len(top) :
                 Occurrences(t) <= top[i].count

\* sixteen topics are met, "Books" twice in one article and "AI" in two
\* articles: "AI", met first, leads, "Books" follows, "Space" is the first of
\* the topics met once, and the last topic met once is cut; the article of 40
\* days ago is not counted
C25_Witness ==
    /\ engagement # Null
    /\ Cardinality({TopicAt(o) : o \in FilteredOccurrences}) = 16
    /\ Len(engagement[1].topTopics) = 15
    /\ engagement[1].topTopics[1] = [topic |-> "AI", count |-> 2]
    /\ engagement[1].topTopics[2] = [topic |-> "Books", count |-> 2]
    /\ engagement[1].topTopics[3] = [topic |-> "Tech", count |-> 1]
    /\ timeRange = "30"
    /\ Len(filteredArticles) < Len(articles[1])

----------------------------------------------------------------------------
(* Specification: the page staying mounted over midnight *)

\* the most days the page stays mounted after the day it was mounted on
MaxDaysMounted == 1

\* the clock readings: those of Day0 and the first instant of each later day
MidnightInstants == MountInstants \cup {DateAt(Day0 + k, 0) : k \in 1..MaxDaysMounted}

\* a refetch brings one more article of the mount day
MidnightArticles ==
    {Article(0, 1, Some(IsoString(DateAt(Day0, 0))), Some(IsoString(DateAt(Day0, 0))),
             TRUE, Null, Null)}

NextMidnight ==
    \/ SetTimeRange
    \/ ArticlesLoaded(EmptySnapshots)
    \/ ArticlesRefetched(MidnightArticles, MaxArticles)
    \/ FeedsLoaded(WindowFeeds)
    \/ Tick(MidnightInstants)

SpecMidnight == Init /\ [][NextMidnight]_vars

\* C28 (as claimed): after any sequence of snapshot replacements, range
\* changes and clock advances, midnight included, the cutoffDate of the filter
\* lies on the calendar day of the first day key of the finite-window
\* dailyActivity series (the series exists once the articles are loaded).
C28_SameWindow ==
    (timeRange # "all" /\ articles # Null) =>
        /\ cutoffDate # Null
        /\ dailyActivity # <<>>
        /\ formatDateKey(cutoffDate[1]) = dailyActivity[1].dateKey

----------------------------------------------------------------------------
(* Specification: the command palette *)

\* a command; its action is known by the id
Command(id, title, keywords) ==
    [id |-> id, title |-> title, subtitle |-> <<>>, keywords |-> keywords]

\* what the components register: one command, and a batch of two
CommandBatches ==
    {<<Command("feeds", <<"a", "b">>, <<>>)>>,
     <<Command("topics", <<"b">>, << <<"a">> >>), Command("logout", <<"c">>, <<>>)>>}

\* what is typed: nothing, a letter, a capital between spaces, a letter only
\* one title has, and a text that matches nothing
Queries == {<<>>, <<"a">>, <<" ", "B", " ">>, <<"c">>, <<"c", "c">>}

NextPalette ==
    \/ RegisterCommands(CommandBatches)
    \/ UnregisterCommands
    \/ openPalette({Null} \cup {Some(q) : q \in Queries})
    \/ closePalette
    \/ onSearchChange(Queries)
    \/ ClickCommand
    \/ KeyDown

SpecPalette == Init /\ [][NextPalette]_vars

\* C30 (as claimed): after any sequence of open, close, query edits,
\* registrations, cleanups and ArrowUp / ArrowDown / Tab presses, whenever the
\* palette is open and filteredCommands is not empty the active index is
\* within 0 .. length - 1, so Enter runs a command and closes the palette.
C30_ActiveIndexInRange ==
    (isOpen /\ filteredCommands # <<>>) =>
        activeIndex \in 0..(Len(filteredCommands) - 1)

====
